---- MODULE Spec2Model ----
(***************************************************************************)
(* The issue mute/unmute state machine of issues/models.py:                *)
(* IssueStateManager (single in-memory issue, saved by the caller),        *)
(* IssueQuerysetStateManager (bulk updates on the database) and the unmute *)
(* handler that the volume-condition registry calls.                       *)
(***************************************************************************)
EXTENDS Integers, Sequences, FiniteSets, TLC

VARIABLES
    db,         \* the issues table: issue id -> row
    by_issue,   \* get_pc_registry().by_issue: issue id -> period counter
    sent,       \* issue id -> number of send_unmute_alert.delay calls since the issue's last mute
    now,        \* the clock read by datetime.now()
    last,       \* the exception the most recent state-manager call raised, if it raised: the call, its
                \* target and the in-memory issue it left behind
    thr,        \* the threads running an unmute handler: position in the handler, issue id, local issue
    project,    \* the issues' project (its alert_on_unmute setting)
    usr,        \* a caller of IssueStateManager taken step by step: get, operation, save
    conn,       \* the sqlite connections: the progress handler installed, the statement in progress
    time        \* time.time(), in seconds

vars == <<db, by_issue, sent, now, last, thr, project, usr, conn, time>>

-----------------------------------------------------------------------------
(* Bounds *)

MaxCount == 2       \* events counted per issue
MaxNow == 1         \* days the clock advances
MaxFixedLen == 4    \* characters in the fixed_at text
MaxTime == 7        \* seconds that time.time() advances

Issues == {1, 2}
Threads == {1, 2}

-----------------------------------------------------------------------------
(* Text: a string is a sequence of characters; NL is "\n" *)

NL == "NL"

Releases == {<<>>, <<"a">>, <<"b">>}     \* release_version strings: "", "a", "b"

\* str.split("\n")
RECURSIVE split_nl(_)
split_nl(s) ==
    IF s = <<>> THEN << <<>> >>
    ELSE LET rest == split_nl(Tail(s)) IN
         IF Head(s) = NL THEN << <<>> >> \o rest
         ELSE << <<Head(s)>> \o Head(rest) >> \o Tail(rest)

parse_lines(s) ==
    LET parts == split_nl(s) IN SubSeq(parts, 1, Len(parts) - 1)

RECURSIVE serialize_lines(_)
serialize_lines(l) ==
    IF l = <<>> THEN <<>> ELSE Head(l) \o <<NL>> \o serialize_lines(Tail(l))

\* SQL "fixed_at LIKE %sub%" (Django's __contains lookup)
contains(s, sub) ==
    \E k \in 0..(Len(s) - Len(sub)) : SubSeq(s, k + 1, k + Len(sub)) = sub

InList(x, l) == \E k \in 1..Len(l) : l[k] = x

-----------------------------------------------------------------------------
(* Volume based conditions and the registry's period counter *)

None == -1              \* Python's None where a number or a datetime is expected
NoName == "None"        \* Python's None where a period name is expected

UNMUTE_PURPOSE == "unmute"

VolumeBasedCondition(period, nr_of_periods, volume) ==
    [period |-> period, nr_of_periods |-> nr_of_periods, volume |-> volume]

PeriodNames == {"day", "year"}

\* "1 event per day", "1 event per year": one event can make both true
Conds == {VolumeBasedCondition("day", 1, 1), VolumeBasedCondition("year", 1, 1)}

\* the values of the unmute_on_volume_based_conditions json string: lists of conditions
CondLists == {<<>>} \cup {<<c>> : c \in Conds}
                \cup {<<c, d>> : <<c, d>> \in {p \in Conds \X Conds : p[1] # p[2]}}

AfterTuples == {<<None, NoName>>, <<1, "day">>, <<None, "day">>}

NoListener == [purpose |-> "none", is_true |-> FALSE]

Listener(purpose, is_true) == [purpose |-> purpose, is_true |-> is_true]

\* a period counter: the events counted in the current day and year, and its listeners keyed by condition
EmptyCounter == [counts |-> [p \in PeriodNames |-> 0], listeners |-> [c \in Conds |-> NoListener]]

\* the condition's state now: the events of its last nr_of_periods periods reach its volume
get_event_state(pc, vbc) == pc.counts[vbc.period] >= vbc.volume

\* PeriodCounter.add_event_listener: returns the counter and the listener's initial state
add_event_listener(pc, vbc, purpose) ==
    LET initial_state == get_event_state(pc, vbc) IN
    [pc |-> [pc EXCEPT !.listeners[vbc] = Listener(purpose, initial_state)],
     initial_state |-> initial_state]

\* PeriodCounter.remove_event_listener: drops every listener of the purpose
remove_event_listener(pc, purpose) ==
    [pc EXCEPT !.listeners =
        [c \in Conds |-> IF pc.listeners[c].purpose = purpose THEN NoListener ELSE pc.listeners[c]]]

UnmuteListeners(pc) == {c \in Conds : pc.listeners[c].purpose = UNMUTE_PURPOSE}

-----------------------------------------------------------------------------
(* Issue rows *)

NewIssue ==
    [is_resolved |-> FALSE,
     is_resolved_by_next_release |-> FALSE,
     fixed_at |-> <<>>,
     is_muted |-> FALSE,
     unmute_on_volume_based_conditions |-> <<>>,
     unmute_after |-> None]

get_fixed_at(issue) == parse_lines(issue.fixed_at)

add_fixed_at(issue, release_version) ==
    LET fixed_at == get_fixed_at(issue) IN
    IF ~InList(release_version, fixed_at)
    THEN [issue EXCEPT !.fixed_at = serialize_lines(Append(fixed_at, release_version))]
    ELSE issue

PeriodLength(period_name) == 1

add_periods_to_datetime(dt, nr_of_periods, period_name) ==
    dt + nr_of_periods * PeriodLength(period_name)

-----------------------------------------------------------------------------
(* IssueStateManager: every operation takes and returns a call record        *)
(*   [issue: the in-memory issue, pc: by_issue[issue.id],                   *)
(*    alerts: send_unmute_alert.delay calls made, raised: an exception left] *)

Call(issue, pc) == [issue |-> issue, pc |-> pc, alerts |-> 0, raised |-> FALSE]

unmute(r, triggered_by_event) ==
    IF r.issue.is_muted
    THEN [r EXCEPT
            !.issue = [@ EXCEPT !.is_muted = FALSE,
                                !.unmute_on_volume_based_conditions = <<>>,
                                !.unmute_after = None],
            !.pc = remove_event_listener(@, UNMUTE_PURPOSE),
            !.alerts = IF triggered_by_event /\ project.alert_on_unmute THEN @ + 1 ELSE @]
    ELSE r

\* resolve that forgets to unmute
resolve_keeps_muted(r) ==
    [r EXCEPT !.issue = add_fixed_at([@ EXCEPT !.is_resolved = TRUE], <<>>)]

resolve(r) ==
    unmute([r EXCEPT !.issue = add_fixed_at([@ EXCEPT !.is_resolved = TRUE], <<>>)], FALSE)

resolve_by_release(r, release_version) ==
    unmute([r EXCEPT !.issue = add_fixed_at([@ EXCEPT !.is_resolved = TRUE], release_version)], FALSE)

resolve_by_next(r) ==
    unmute([r EXCEPT !.issue = [@ EXCEPT !.is_resolved = TRUE,
                                         !.is_resolved_by_next_release = TRUE]], FALSE)

reopen(r) ==
    unmute([r EXCEPT !.issue = [@ EXCEPT !.is_resolved = FALSE,
                                         !.is_resolved_by_next_release = FALSE]], FALSE)

\* the loop of set_unmute_handlers over the parsed conditions; raises on the first that is already true
RECURSIVE add_unmute_listeners(_, _)
add_unmute_listeners(r, unmute_vbcs) ==
    IF unmute_vbcs = <<>> THEN r
    ELSE LET added == add_event_listener(r.pc, Head(unmute_vbcs), UNMUTE_PURPOSE) IN
         IF added.initial_state
         THEN [r EXCEPT !.pc = added.pc, !.raised = TRUE]
         ELSE add_unmute_listeners([r EXCEPT !.pc = added.pc], Tail(unmute_vbcs))

\* set_unmute_handlers that ignores the initial state add_event_listener returns
RECURSIVE add_unmute_listeners_unchecked(_, _)
add_unmute_listeners_unchecked(r, unmute_vbcs) ==
    IF unmute_vbcs = <<>> THEN r
    ELSE add_unmute_listeners_unchecked(
            [r EXCEPT !.pc = add_event_listener(r.pc, Head(unmute_vbcs), UNMUTE_PURPOSE).pc],
            Tail(unmute_vbcs))

set_unmute_handlers_unchecked(r) ==
    add_unmute_listeners_unchecked(r, r.issue.unmute_on_volume_based_conditions)

set_unmute_handlers(r) ==
    add_unmute_listeners(r, r.issue.unmute_on_volume_based_conditions)

\* mute without the check on is_resolved
mute_unguarded(r, unmute_on_volume_based_conditions, unmute_after_tuple) ==
    set_unmute_handlers(
        [r EXCEPT !.issue = [@ EXCEPT
            !.is_muted = TRUE,
            !.unmute_on_volume_based_conditions = unmute_on_volume_based_conditions]])

mute(r, unmute_on_volume_based_conditions, unmute_after_tuple) ==
    IF r.issue.is_resolved
    THEN [r EXCEPT !.raised = TRUE]
    ELSE LET r1 == set_unmute_handlers(
                      [r EXCEPT !.issue = [@ EXCEPT
                          !.is_muted = TRUE,
                          !.unmute_on_volume_based_conditions = unmute_on_volume_based_conditions]])
             nr_of_periods == unmute_after_tuple[1]
             period_name == unmute_after_tuple[2]
         IN  IF r1.raised THEN r1
             ELSE IF nr_of_periods # None /\ period_name # NoName
                  THEN [r1 EXCEPT !.issue.unmute_after =
                            add_periods_to_datetime(now, nr_of_periods, period_name)]
                  ELSE r1

-----------------------------------------------------------------------------
(* IssueQuerysetStateManager: issue_qs is a set of issue ids; every          *)
(* operation takes and returns a bulk record                                 *)
(*   [db: the table, by_issue: the registry, alerts: id -> calls made,       *)
(*    raised: an exception left]                                             *)

Bulk(table, registry) ==
    [db |-> table, by_issue |-> registry, alerts |-> [i \in Issues |-> 0], raised |-> FALSE]

filter_qs_for_fixed_at(table, issue_qs, release) ==
    {i \in issue_qs : contains(table[i].fixed_at, release \o <<NL>>)}

exclude_qs_for_fixed_at(table, issue_qs, release) ==
    {i \in issue_qs : ~contains(table[i].fixed_at, release \o <<NL>>)}

qs_resolve_at(b, issue_qs, release_version) ==
    LET filtered == filter_qs_for_fixed_at(b.db, issue_qs, release_version)
        db1 == [i \in Issues |->
                  IF i \in filtered THEN [b.db[i] EXCEPT !.is_resolved = TRUE] ELSE b.db[i]]
        excluded == exclude_qs_for_fixed_at(db1, issue_qs, <<>>)
        db2 == [i \in Issues |->
                  IF i \in excluded
                  THEN [db1[i] EXCEPT !.is_resolved = TRUE,
                                      !.fixed_at = @ \o release_version \o <<NL>>]
                  ELSE db1[i]]
        db3 == [i \in Issues |->
                  IF i \in issue_qs
                  THEN [db2[i] EXCEPT !.fixed_at = @ \o release_version \o <<NL>>]
                  ELSE db2[i]]
    IN  [b EXCEPT !.db = db3]

\* "for issue in issue_qs": the rows are fetched when the loop starts, in id order
QsOrder(issue_qs) ==
    CHOOSE s \in [1..Cardinality(issue_qs) -> issue_qs] :
        \A j, k \in 1..Cardinality(issue_qs) : j < k => s[j] < s[k]

\* the loop of IssueQuerysetStateManager.unmute: IssueStateManager.unmute on each fetched issue, none saved
RECURSIVE qs_unmute_each(_, _, _, _)
qs_unmute_each(b, rows, ids, triggered_by_event) ==
    IF ids = <<>> THEN b
    ELSE LET i == Head(ids)
             r == unmute(Call(rows[i], b.by_issue[i]), triggered_by_event)
         IN  qs_unmute_each([b EXCEPT !.by_issue[i] = r.pc, !.alerts[i] = @ + r.alerts],
                            rows, Tail(ids), triggered_by_event)

qs_unmute(b, issue_qs, triggered_by_event) ==
    LET db1 == [i \in Issues |->
                  IF i \in issue_qs
                  THEN [b.db[i] EXCEPT !.is_muted = FALSE,
                                       !.unmute_on_volume_based_conditions = <<>>,
                                       !.unmute_after = None]
                  ELSE b.db[i]]
    IN  qs_unmute_each([b EXCEPT !.db = db1], db1, QsOrder(issue_qs), triggered_by_event)

qs_resolve(b, issue_qs) ==
    qs_unmute(qs_resolve_at(b, issue_qs, <<>>), issue_qs, FALSE)

qs_resolve_by_release(b, issue_qs, release_version) ==
    qs_unmute(qs_resolve_at(b, issue_qs, release_version), issue_qs, FALSE)

qs_resolve_by_next(b, issue_qs) ==
    LET db1 == [i \in Issues |->
                  IF i \in issue_qs
                  THEN [b.db[i] EXCEPT !.is_resolved = TRUE,
                                       !.is_resolved_by_next_release = TRUE]
                  ELSE b.db[i]]
    IN  qs_unmute([b EXCEPT !.db = db1], issue_qs, FALSE)

\* the loop of IssueQuerysetStateManager.set_unmute_handlers; an exception ends it
RECURSIVE qs_set_unmute_handlers(_, _, _)
qs_set_unmute_handlers(b, rows, ids) ==
    IF ids = <<>> THEN b
    ELSE LET i == Head(ids)
             r == set_unmute_handlers(Call(rows[i], b.by_issue[i]))
         IN  IF r.raised
             THEN [b EXCEPT !.by_issue[i] = r.pc, !.raised = TRUE]
             ELSE qs_set_unmute_handlers([b EXCEPT !.by_issue[i] = r.pc], rows, Tail(ids))

qs_mute(b, issue_qs, unmute_on_volume_based_conditions, unmute_after_tuple) ==
    IF \E i \in issue_qs : b.db[i].is_resolved
    THEN [b EXCEPT !.raised = TRUE]
    ELSE LET db1 == [i \in Issues |->
                       IF i \in issue_qs
                       THEN [b.db[i] EXCEPT
                               !.is_muted = TRUE,
                               !.unmute_on_volume_based_conditions = unmute_on_volume_based_conditions]
                       ELSE b.db[i]]
             b1 == qs_set_unmute_handlers([b EXCEPT !.db = db1], db1, QsOrder(issue_qs))
             nr_of_periods == unmute_after_tuple[1]
             period_name == unmute_after_tuple[2]
         IN  IF b1.raised THEN b1
             ELSE IF nr_of_periods # None /\ period_name # NoName
                  THEN [b1 EXCEPT !.db = [i \in Issues |->
                          IF i \in issue_qs
                          THEN [b1.db[i] EXCEPT !.unmute_after =
                                   add_periods_to_datetime(now, nr_of_periods, period_name)]
                          ELSE b1.db[i]]]
                  ELSE b1

-----------------------------------------------------------------------------
(* The unmute handler and the event that makes conditions true *)

\* the handler without its issue.save()
unmute_handler_unsaved(b, issue_id) ==
    LET r == unmute(Call(b.db[issue_id], b.by_issue[issue_id]), TRUE) IN
    [b EXCEPT !.by_issue[issue_id] = r.pc,
              !.alerts[issue_id] = @ + r.alerts]

\* the closure of create_unmute_issue_handler, run to its end: get, unmute, save
unmute_handler(b, issue_id) ==
    LET r == unmute(Call(b.db[issue_id], b.by_issue[issue_id]), TRUE) IN
    [b EXCEPT !.db[issue_id] = r.issue,
              !.by_issue[issue_id] = r.pc,
              !.alerts[issue_id] = @ + r.alerts]

Counted(pc) == [pc EXCEPT !.counts = [p \in PeriodNames |-> pc.counts[p] + 1]]

\* the listeners that one more event turns from false to true
BecomesTrue(pc) ==
    {c \in Conds : /\ pc.listeners[c].purpose # NoListener.purpose
                   /\ ~pc.listeners[c].is_true
                   /\ get_event_state(Counted(pc), c)}

\* PeriodCounter.inc up to the handler calls: count the event, flip the listeners that become true
inc(pc) ==
    [Counted(pc) EXCEPT !.listeners = [c \in Conds |->
        IF c \in BecomesTrue(pc)
        THEN Listener(pc.listeners[c].purpose, TRUE)
        ELSE pc.listeners[c]]]

RECURSIVE run_handlers(_, _, _)
run_handlers(b, issue_id, n) ==
    IF n = 0 THEN b ELSE run_handlers(unmute_handler(b, issue_id), issue_id, n - 1)

\* the day ends: its count starts again, every listener's state is evaluated anew
new_period(pc) ==
    LET pc0 == [pc EXCEPT !.counts["day"] = 0] IN
    [pc0 EXCEPT !.listeners = [c \in Conds |->
        IF pc.listeners[c].purpose = NoListener.purpose THEN NoListener
        ELSE Listener(pc.listeners[c].purpose, get_event_state(pc0, c))]]

-----------------------------------------------------------------------------
(* State machine *)

Returned == [op |-> "none", ids |-> {}, issue |-> NewIssue, raised |-> FALSE]

\* no caller is between its get and its save
NoCaller == [pc |-> "idle", id |-> 1, issue |-> NewIssue, op |-> "none", in_sync |-> FALSE]

Connections == {1, 2}

\* a connection as sqlite3 opens it: no progress handler, no statement running, nothing raised
NewConnection == [handler |-> None, pc |-> "idle", raised |-> "none"]

Idle == [pc |-> "idle", id |-> 1, issue |-> NewIssue]

Init ==
    /\ db = [i \in Issues |-> NewIssue]
    /\ by_issue = [i \in Issues |-> EmptyCounter]
    /\ sent = [i \in Issues |-> 0]
    /\ now = 0
    /\ last = Returned
    /\ thr = [t \in Threads |-> Idle]
    /\ project \in [alert_on_unmute : BOOLEAN]
    /\ usr = NoCaller
    /\ conn = [c \in Connections |-> NewConnection]
    /\ time = 0

NoThreadRuns == \A t \in Threads : thr[t].pc = "idle"

\* one call of an IssueStateManager operation by a caller that gets the issue, and saves it unless the
\* call raised
Request(op, i, r, alerts) ==
    /\ Len(r.issue.fixed_at) <= MaxFixedLen
    /\ db' = IF r.raised THEN db ELSE [db EXCEPT ![i] = r.issue]
    /\ by_issue' = [by_issue EXCEPT ![i] = r.pc]
    /\ sent' = [sent EXCEPT ![i] = alerts]
    /\ last' = IF r.raised THEN [op |-> op, ids |-> {i}, issue |-> r.issue, raised |-> TRUE]
                ELSE Returned
    /\ UNCHANGED <<now, thr, project, usr, conn, time>>

Resolve(i) ==
    LET r == resolve(Call(db[i], by_issue[i])) IN Request("resolve", i, r, sent[i] + r.alerts)

ResolveByRelease(i, release_version) ==
    LET r == resolve_by_release(Call(db[i], by_issue[i]), release_version)
    IN  Request("resolve_by_release", i, r, sent[i] + r.alerts)

ResolveByNext(i) ==
    LET r == resolve_by_next(Call(db[i], by_issue[i]))
    IN  Request("resolve_by_next", i, r, sent[i] + r.alerts)

Reopen(i) ==
    LET r == reopen(Call(db[i], by_issue[i])) IN Request("reopen", i, r, sent[i] + r.alerts)

Mute(i, conds, after) ==
    LET r == mute(Call(db[i], by_issue[i]), conds, after) IN Request("mute", i, r, 0)

Unmute(i) ==
    LET r == unmute(Call(db[i], by_issue[i]), FALSE) IN Request("unmute", i, r, sent[i] + r.alerts)

\* one call of an IssueQuerysetStateManager operation
BulkRequest(op, issue_qs, b, alerts) ==
    /\ \A i \in Issues : Len(b.db[i].fixed_at) <= MaxFixedLen
    /\ db' = b.db
    /\ by_issue' = b.by_issue
    /\ sent' = alerts
    /\ last' = IF b.raised THEN [op |-> op, ids |-> issue_qs, issue |-> NewIssue, raised |-> TRUE]
                ELSE Returned
    /\ UNCHANGED <<now, thr, project, usr, conn, time>>

Added(b) == [i \in Issues |-> sent[i] + b.alerts[i]]

QsResolve(issue_qs) ==
    LET b == qs_resolve(Bulk(db, by_issue), issue_qs) IN BulkRequest("qs_resolve", issue_qs, b, Added(b))

QsResolveByRelease(issue_qs, release_version) ==
    LET b == qs_resolve_by_release(Bulk(db, by_issue), issue_qs, release_version)
    IN  BulkRequest("qs_resolve_by_release", issue_qs, b, Added(b))

QsResolveByNext(issue_qs) ==
    LET b == qs_resolve_by_next(Bulk(db, by_issue), issue_qs)
    IN  BulkRequest("qs_resolve_by_next", issue_qs, b, Added(b))

QsMute(issue_qs, conds, after) ==
    LET b == qs_mute(Bulk(db, by_issue), issue_qs, conds, after)
    IN  BulkRequest("qs_mute", issue_qs, b,
                    [i \in Issues |-> IF i \in issue_qs /\ b.db[i].is_muted THEN 0 ELSE sent[i]])

QsUnmute(issue_qs) ==
    LET b == qs_unmute(Bulk(db, by_issue), issue_qs, FALSE)
    IN  BulkRequest("qs_unmute", issue_qs, b, Added(b))

\* an event of issue i is counted; the handlers of the conditions it makes true run one after another
Event(i) ==
    /\ by_issue[i].counts["year"] < MaxCount
    /\ LET b0 == Bulk(db, [by_issue EXCEPT ![i] = inc(@)])
           b == run_handlers(b0, i, Cardinality(BecomesTrue(by_issue[i])))
       IN  /\ db' = b.db
           /\ by_issue' = b.by_issue
           /\ sent' = Added(b)
    /\ last' = Returned
    /\ UNCHANGED <<now, thr, project, usr, conn, time>>

Tick ==
    /\ now < MaxNow
    /\ now' = now + 1
    /\ by_issue' = [i \in Issues |-> new_period(by_issue[i])]
    /\ last' = Returned
    /\ UNCHANGED <<db, sent, thr, project, usr, conn, time>>

\* the issue the single-issue state manager is applied to
Single == {1}

NextSM ==
    \/ \E i \in Single : Resolve(i)
    \/ \E i \in Single, v \in Releases : ResolveByRelease(i, v)
    \/ \E i \in Single : ResolveByNext(i)
    \/ \E i \in Single : Reopen(i)
    \/ \E i \in Single, conds \in CondLists, after \in AfterTuples : Mute(i, conds, after)
    \/ \E i \in Single : Unmute(i)
    \/ \E i \in Single : Event(i)
    \/ Tick

\* the single-issue state manager on one issue, with events handled one at a time
Spec == Init /\ [][NextSM]_vars

\* the querysets the bulk operations are called on
Querysets == (SUBSET Issues) \ {{}}

NextQs ==
    \/ \E i \in Issues : Resolve(i)
    \/ \E i \in Issues : Reopen(i)
    \/ \E i \in Issues, conds \in CondLists, after \in AfterTuples : Mute(i, conds, after)
    \/ \E i \in Issues : Unmute(i)
    \/ \E qs \in Querysets : QsResolveByNext(qs)
    \/ \E qs \in Querysets, conds \in CondLists, after \in AfterTuples : QsMute(qs, conds, after)
    \/ \E qs \in Querysets : QsUnmute(qs)

\* both state managers on two issues: muting, unmuting and what they guard against
SpecQs == Init /\ [][NextQs]_vars

NextFixed ==
    \/ \E i \in Issues : Resolve(i)
    \/ \E i \in Issues, v \in Releases : ResolveByRelease(i, v)
    \/ \E i \in Issues : Reopen(i)
    \/ \E qs \in Querysets : QsResolve(qs)
    \/ \E qs \in Querysets, v \in Releases : QsResolveByRelease(qs, v)

\* both state managers on two issues: resolving and fixed_at
SpecFixed == Init /\ [][NextFixed]_vars

-----------------------------------------------------------------------------
(* The unmute handler step by step: each handler an event fires is a thread  *)
(* of control of its own, and nothing in the handler holds the others back   *)

IdleThreads == {t \in Threads : thr[t].pc = "idle"}

\* the k idle threads of lowest number
RECURSIVE Pick(_, _)
Pick(free, k) ==
    IF k = 0 \/ free = {} THEN {}
    ELSE LET t == CHOOSE x \in free : \A y \in free : x <= y IN {t} \cup Pick(free \ {t}, k - 1)

\* an event of issue i is counted and a handler is started for every condition it makes true
Fire(i) ==
    /\ by_issue[i].counts["year"] < MaxCount
    /\ Cardinality(BecomesTrue(by_issue[i])) <= Cardinality(IdleThreads)
    /\ by_issue' = [by_issue EXCEPT ![i] = inc(@)]
    /\ thr' = [t \in Threads |->
                 IF t \in Pick(IdleThreads, Cardinality(BecomesTrue(by_issue[i])))
                 THEN [pc |-> "get", id |-> i, issue |-> NewIssue]
                 ELSE thr[t]]
    /\ last' = Returned
    /\ UNCHANGED <<db, sent, now, project, usr, conn, time>>

\* issue = Issue.objects.get(id=issue_id)
HandlerGet(t) ==
    /\ thr[t].pc = "get"
    /\ thr' = [thr EXCEPT ![t].pc = "unmute", ![t].issue = db[thr[t].id]]
    /\ UNCHANGED <<db, by_issue, sent, now, last, project, usr, conn, time>>

\* IssueStateManager.unmute(issue, triggered_by_event=True)
HandlerUnmute(t) ==
    /\ thr[t].pc = "unmute"
    /\ LET i == thr[t].id
           r == unmute(Call(thr[t].issue, by_issue[i]), TRUE)
       IN  /\ thr' = [thr EXCEPT ![t].pc = "save", ![t].issue = r.issue]
           /\ by_issue' = [by_issue EXCEPT ![i] = r.pc]
           /\ sent' = [sent EXCEPT ![i] = @ + r.alerts]
    /\ UNCHANGED <<db, now, last, project, usr, conn, time>>

\* issue.save()
HandlerSave(t) ==
    /\ thr[t].pc = "save"
    /\ db' = [db EXCEPT ![thr[t].id] = thr[t].issue]
    /\ thr' = [thr EXCEPT ![t] = Idle]
    /\ UNCHANGED <<by_issue, sent, now, last, project, usr, conn, time>>

NextConc ==
    \/ \E i \in Single : Resolve(i)
    \/ \E i \in Single, conds \in CondLists, after \in AfterTuples : Mute(i, conds, after)
    \/ \E i \in Single : Fire(i)
    \/ \E t \in Threads : HandlerGet(t)
    \/ \E t \in Threads : HandlerUnmute(t)
    \/ \E t \in Threads : HandlerSave(t)

\* the single-issue state manager on one issue, with the unmute handlers running concurrently
SpecConc == Init /\ [][NextConc]_vars

-----------------------------------------------------------------------------
(* A caller of IssueStateManager step by step: the state manager works on    *)
(* the issue in memory and "save() is assumed to be called after the         *)
(* changes", so the get, the operation and the save are three steps that the *)
(* unmute handlers may run between                                           *)

CondSet(issue) ==
    {issue.unmute_on_volume_based_conditions[k] :
        k \in 1..Len(issue.unmute_on_volume_based_conditions)}

\* the registry's unmute listeners are those of the issue, and an issue that is not muted has none
InSync(issue, pc) ==
    /\ UnmuteListeners(pc) = CondSet(issue)
    /\ ~issue.is_muted => UnmuteListeners(pc) = {}

\* the caller gets the issue
CallerGet(i) ==
    /\ usr.pc = "idle"
    /\ usr' = [NoCaller EXCEPT !.pc = "apply", !.id = i, !.issue = db[i]]
    /\ last' = Returned
    /\ UNCHANGED <<db, by_issue, sent, now, thr, project, conn, time>>

\* the caller's operation has run on its in-memory issue and on the registry; a call that raised
\* ends the caller's request without a save
Applied(op, r) ==
    /\ Len(r.issue.fixed_at) <= MaxFixedLen
    /\ by_issue' = [by_issue EXCEPT ![usr.id] = r.pc]
    /\ sent' = [sent EXCEPT ![usr.id] = @ + r.alerts]
    /\ usr' = IF r.raised THEN NoCaller
              ELSE [usr EXCEPT !.pc = "save", !.issue = r.issue, !.op = op,
                               !.in_sync = InSync(r.issue, r.pc)]
    /\ last' = IF r.raised THEN [op |-> op, ids |-> {usr.id}, issue |-> r.issue, raised |-> TRUE]
                ELSE Returned
    /\ UNCHANGED <<db, now, thr, project, conn, time>>

\* IssueStateManager.mute(issue, ...) on the caller's issue
CallerMute(conds, after) ==
    /\ usr.pc = "apply"
    /\ Applied("mute", mute(Call(usr.issue, by_issue[usr.id]), conds, after))

\* IssueStateManager.resolve(issue) on the caller's issue
CallerResolve ==
    /\ usr.pc = "apply"
    /\ Applied("resolve", resolve(Call(usr.issue, by_issue[usr.id])))

\* issue.save() by the caller
CallerSave ==
    /\ usr.pc = "save"
    /\ db' = [db EXCEPT ![usr.id] = usr.issue]
    /\ usr' = [usr EXCEPT !.pc = "done"]
    /\ UNCHANGED <<by_issue, sent, now, last, thr, project, conn, time>>

\* the caller's request is over
CallerReturn ==
    /\ usr.pc = "done"
    /\ usr' = NoCaller
    /\ UNCHANGED <<db, by_issue, sent, now, last, thr, project, conn, time>>

NextRace ==
    \/ \E i \in Single : CallerGet(i)
    \/ \E conds \in CondLists, after \in AfterTuples : CallerMute(conds, after)
    \/ CallerResolve
    \/ CallerSave
    \/ CallerReturn
    \/ \E i \in Single : Fire(i)
    \/ \E t \in Threads : HandlerGet(t)
    \/ \E t \in Threads : HandlerUnmute(t)
    \/ \E t \in Threads : HandlerSave(t)

\* one caller muting and resolving one issue step by step, with the unmute handlers running
\* concurrently
SpecRace == Init /\ [][NextRace]_vars

-----------------------------------------------------------------------------
(* The timed sqlite backend: every statement of a cursor runs inside         *)
(* limit_runtime, which installs a progress handler on the connection        *)

\* the runtime limit that execute and executemany pass to limit_runtime
Seconds == 5

\* conn.set_progress_handler(handler, n): the handler is None or check_time, which is known by the
\* start it closed over
set_progress_handler(cn, handler) == [cn EXCEPT !.handler = handler]

\* check_time of a limit_runtime entered at start returns 1 (which interrupts the statement)
check_time(start) == time > start + Seconds

\* limit_runtime up to its yield: start = time.time(); conn.set_progress_handler(check_time, 10_000)
limit_runtime_enter(cn) == set_progress_handler(cn, time)

\* limit_runtime after its yield, reached only when the body of the with-statement returned:
\* conn.set_progress_handler(None, 0)
limit_runtime_exit(cn) == set_progress_handler(cn, None)

\* limit_runtime when the body of the with-statement raised: the exception is raised at the yield,
\* which has no try / finally around it, so the function is left there
limit_runtime_throw(cn) == cn

\* a method of SQLiteCursorWrapper enters limit_runtime and starts the statement
Start(c, method) ==
    /\ conn' = [conn EXCEPT ![c] = [limit_runtime_enter(@) EXCEPT !.pc = method, !.raised = "none"]]
    /\ UNCHANGED <<db, by_issue, sent, now, last, thr, project, usr, time>>

\* SQLiteCursorWrapper.execute, on a connection that runs no statement
execute(c) ==
    /\ conn[c].pc = "idle"
    /\ Start(c, "execute")

\* SQLiteCursorWrapper.executemany, on a connection that runs no statement
executemany(c) ==
    /\ conn[c].pc = "idle"
    /\ Start(c, "executemany")

\* super().execute / super().executemany returned
StatementReturns(c) ==
    /\ conn[c].pc # "idle"
    /\ conn' = [conn EXCEPT ![c] = [limit_runtime_exit(@) EXCEPT !.pc = "idle"]]
    /\ UNCHANGED <<db, by_issue, sent, now, last, thr, project, usr, time>>

\* super().execute / super().executemany raised an error of its own (a constraint, a locked
\* database, a syntax error)
StatementRaises(c) ==
    /\ conn[c].pc # "idle"
    /\ conn' = [conn EXCEPT ![c] = [limit_runtime_throw(@) EXCEPT !.pc = "idle", !.raised = "error"]]
    /\ UNCHANGED <<db, by_issue, sent, now, last, thr, project, usr, time>>

\* sqlite calls the progress handler, check_time returns 1 and the statement is interrupted:
\* super().execute / super().executemany raises OperationalError
StatementInterrupted(c) ==
    /\ conn[c].pc # "idle"
    /\ conn[c].handler # None
    /\ check_time(conn[c].handler)
    /\ conn' = [conn EXCEPT ![c] = [limit_runtime_throw(@) EXCEPT !.pc = "idle",
                                                                  !.raised = "interrupted"]]
    /\ UNCHANGED <<db, by_issue, sent, now, last, thr, project, usr, time>>

\* a second passes
TimePasses ==
    /\ time < MaxTime
    /\ time' = time + 1
    /\ UNCHANGED <<db, by_issue, sent, now, last, thr, project, usr, conn>>

NextSqlite ==
    \/ \E c \in Connections : execute(c)
    \/ \E c \in Connections : executemany(c)
    \/ \E c \in Connections : StatementReturns(c)
    \/ \E c \in Connections : StatementRaises(c)
    \/ \E c \in Connections : StatementInterrupted(c)
    \/ TimePasses

\* statements on the connections of the timed sqlite backend
SpecSqlite == Init /\ [][NextSqlite]_vars

-----------------------------------------------------------------------------
(* Claims *)

\* the unmute listeners of issue i that one more event fires
Firing(i) == BecomesTrue(by_issue[i]) \cap UnmuteListeners(by_issue[i])

\* C1: an issue is never both resolved and muted: neither its stored row, nor the in-memory issue
\* that an operation which raised left behind.
C1_NeverResolvedAndMuted ==
    /\ \A i \in Issues : ~(db[i].is_resolved /\ db[i].is_muted)
    /\ ~(last.issue.is_resolved /\ last.issue.is_muted)

\* C1 witness: a mute of an issue that was resolved and reopened before raised after it had set
\* is_muted (an unmute condition was already true).
C1_Witness ==
    /\ last.raised /\ last.op = "mute" /\ last.issue.is_muted
    /\ last.issue.fixed_at # <<>>
    /\ ~last.issue.is_resolved

\* C2: the unmute listeners the registry holds for an issue are exactly the conditions listed in the
\* issue's unmute_on_volume_based_conditions, and there are none when the issue is not muted.
C2_RegistryInSync ==
    \A i \in Single :
        LET issue == IF last.raised /\ i \in last.ids THEN last.issue ELSE db[i] IN
        /\ UnmuteListeners(by_issue[i]) = CondSet(issue)
        /\ ~issue.is_muted => UnmuteListeners(by_issue[i]) = {}

\* C3: for each mute of an issue at most one unmute alert is sent, however the handlers that one
\* event fires are scheduled.
C3_AtMostOneAlert == \A i \in Issues : sent[i] <= 1

\* C4: muting a resolved issue raises and changes nothing: IssueStateManager.mute leaves the issue's
\* fields and the registry as they were, and IssueQuerysetStateManager.mute on a queryset with a
\* resolved issue leaves every row and the registry as they were.
C4_MuteResolvedRejected ==
    /\ \A i \in Issues, conds \in CondLists, after \in AfterTuples :
        db[i].is_resolved =>
            LET r == mute(Call(db[i], by_issue[i]), conds, after) IN
            /\ r.raised
            /\ r.issue = db[i]
            /\ r.pc = by_issue[i]
    /\ \A qs \in SUBSET Issues, conds \in CondLists, after \in AfterTuples :
        (\E i \in qs : db[i].is_resolved) =>
            LET b == qs_mute(Bulk(db, by_issue), qs, conds, after) IN
            /\ b.raised
            /\ b.db = db
            /\ b.by_issue = by_issue

\* C4 witness: a bulk mute of a queryset holding a resolved and an open, unmuted issue has raised.
C4_Witness ==
    /\ last.raised /\ last.op = "qs_mute"
    /\ \E i, j \in last.ids :
        /\ db[i].is_resolved
        /\ ~db[j].is_resolved /\ ~db[j].is_muted /\ UnmuteListeners(by_issue[j]) = {}

\* what a caller of IssueStateManager leaves for issue i: the saved row (the old one when the call
\* raised), the issue's period counter, the alerts sent and whether the call raised
SingleOutcome(i, r) ==
    [row |-> IF r.raised THEN db[i] ELSE r.issue, pc |-> r.pc, alerts |-> r.alerts,
     raised |-> r.raised]

\* the same of an IssueQuerysetStateManager call on a queryset holding issue i alone
BulkOutcome(i, b) ==
    [row |-> b.db[i], pc |-> b.by_issue[i], alerts |-> b.alerts[i], raised |-> b.raised]

\* C5: on a queryset holding one issue, every IssueQuerysetStateManager operation leaves the same
\* stored fields, the same registry listeners and the same alerts as the IssueStateManager operation
\* applied to that issue and saved.
C5_QuerysetSameAsSingle ==
    \A i \in Issues :
        LET r == Call(db[i], by_issue[i])
            b == Bulk(db, by_issue)
        IN  /\ BulkOutcome(i, qs_resolve(b, {i})) = SingleOutcome(i, resolve(r))
            /\ \A v \in Releases :
                 BulkOutcome(i, qs_resolve_by_release(b, {i}, v))
                    = SingleOutcome(i, resolve_by_release(r, v))
            /\ BulkOutcome(i, qs_resolve_by_next(b, {i})) = SingleOutcome(i, resolve_by_next(r))
            /\ \A conds \in CondLists, after \in AfterTuples :
                 BulkOutcome(i, qs_mute(b, {i}, conds, after))
                    = SingleOutcome(i, mute(r, conds, after))
            /\ BulkOutcome(i, qs_unmute(b, {i}, FALSE)) = SingleOutcome(i, unmute(r, FALSE))

\* C6: after IssueQuerysetStateManager.resolve_by_release(issue_qs, release_version), and after
\* resolve (release_version ""), every issue of the queryset is resolved and has release_version
\* among the lines of fixed_at.
C6_BulkResolveResolvesAll ==
    [][ /\ \A qs \in SUBSET Issues, v \in Releases :
            QsResolveByRelease(qs, v) =>
                \A i \in qs : db'[i].is_resolved /\ InList(v, get_fixed_at(db'[i]))
        /\ \A qs \in SUBSET Issues :
            QsResolve(qs) =>
                \A i \in qs : db'[i].is_resolved /\ InList(<<>>, get_fixed_at(db'[i])) ]_vars

\* C7: a listener that fires the unmute handler of a muted issue belongs to a condition the issue
\* is currently muted with: conditions of an earlier mute trigger nothing.
C7_OutdatedConditionsSilent ==
    [][ \A i \in Single :
            (db[i].is_muted /\ Firing(i) # {} /\ Event(i)) => Firing(i) \subseteq CondSet(db[i]) ]_vars

\* C8: when an event makes an unmute condition of a muted issue true, then after the handlers have
\* returned the stored issue is not muted, lists no conditions, has no unmute_after, and the registry
\* holds no unmute listener for it.
C8_HandlerUnmutesAndPersists ==
    [][ \A i \in Single :
            (db[i].is_muted /\ Firing(i) # {} /\ Event(i)) =>
                /\ ~db'[i].is_muted
                /\ db'[i].unmute_on_volume_based_conditions = <<>>
                /\ db'[i].unmute_after = None
                /\ UnmuteListeners(by_issue'[i]) = {} ]_vars

\* C8 witness: the handler has unmuted a muted issue (it sent the alert of this mute), and the
\* stored issue is not muted.
C8_Witness ==
    \E i \in Single :
        /\ sent[i] = 1
        /\ by_issue[i].counts["year"] >= 1
        /\ ~db[i].is_muted /\ ~db[i].is_resolved
        /\ UnmuteListeners(by_issue[i]) = {}

\* C9: IssueStateManager.mute of an unresolved issue raises when add_event_listener reports one of
\* the given conditions as already true.
C9_MuteWithTrueConditionRaises ==
    \A i \in Single, conds \in CondLists, after \in AfterTuples :
        ( /\ ~db[i].is_resolved
          /\ \E k \in 1..Len(conds) :
                add_event_listener(by_issue[i], conds[k], UNMUTE_PURPOSE).initial_state )
        => mute(Call(db[i], by_issue[i]), conds, after).raised

\* C9 witness: a mute raised on its second condition, already true, after the first, still false,
\* got its listener.
C9_Witness ==
    /\ last.raised /\ last.op = "mute" /\ last.issue.is_muted
    /\ Len(last.issue.unmute_on_volume_based_conditions) = 2
    /\ \E i \in last.ids :
        /\ ~get_event_state(by_issue[i], last.issue.unmute_on_volume_based_conditions[1])
        /\ get_event_state(by_issue[i], last.issue.unmute_on_volume_based_conditions[2])
        /\ ~db[i].is_muted

\* C10: after IssueQuerysetStateManager.unmute(issue_qs) the registry holds no unmute listener for
\* any issue of the queryset.
C10_BulkUnmuteRemovesListeners ==
    [][ \A qs \in SUBSET Issues :
            QsUnmute(qs) => \A i \in qs : UnmuteListeners(by_issue'[i]) = {} ]_vars

\* C11: when a caller's mute or resolve (get, operation, save) and the unmute handlers (get,
\* unmute, save) have run interleaved on one issue and all of them have finished, the stored
\* is_muted / unmute_on_volume_based_conditions agree with the registry's unmute listeners of the
\* issue, and the stored issue is not both resolved and muted. The caller's operation by itself
\* left its issue and the registry in agreement.
C11_InterleavingKeepsSync ==
    (usr.pc = "done" /\ usr.in_sync /\ NoThreadRuns) =>
        /\ InSync(db[usr.id], by_issue[usr.id])
        /\ ~(db[usr.id].is_resolved /\ db[usr.id].is_muted)

\* C12: whenever no execute or executemany is in progress on a connection, no progress handler
\* of limit_runtime is installed on it: after a statement that returned, after one that raised and
\* after one that the time limit interrupted.
C12_HandlerScopedToStatement ==
    \A c \in Connections : conn[c].pc = "idle" => conn[c].handler = None

====
